---- MODULE Spec2Model ----
(***************************************************************************)
(* Supervisor of a two-tier tunnel fleet (tunnel_manager.py).             *)
(*                                                                         *)
(* Two threads run the supervisor's code: the entry thread (start(),       *)
(* initialize_tunnels(), and stop() from the signal handler of main.py)    *)
(* and the monitor thread (monitor_loop()).  Each action below is one      *)
(* stretch of a method between two blocking points (lock, sleep, process   *)
(* wait, probe, registry call).  The environment kills processes           *)
(* out-of-band and decides what a spawned process does and what the        *)
(* registry answers.                                                       *)
(***************************************************************************)
EXTENDS Integers, FiniteSets, Sequences, TLC

\* ---------------------------------------------------------------- bounds

\* tunnels.dnstt_count and tunnels.ssh_per_dnstt of the configuration
DnsttCount == 2
SshPerDnstt == 1
\* restart.max_retries of the configuration
MaxRetries == 1
\* out-of-band kills the environment performs in one run
MaxKills == 3
\* the configurations a plan is built from: ssh_per_dnstt and
\* socks_ports_per_tunnel up to MaxPerTunnel, port bases up to MaxPortBase
MaxPerTunnel == 2
MaxPortBase == 3
\* outbounds the registry holds for one child before it refuses an add
MaxEntries == 2
MaxRaises == 1

\* ------------------------------------------------------------ identities

Tunnels == 0 .. (DnsttCount - 1)
SshIds == 0 .. (SshPerDnstt - 1)
SshKeys == Tunnels \X SshIds

\* the keys self.ssh_tunnels can hold under the configurations followed
MaxSlots == IF SshPerDnstt > MaxPerTunnel THEN SshPerDnstt ELSE MaxPerTunnel
Slots == Tunnels \X (0 .. (MaxSlots - 1))
Threads == {"entry", "mon"}

\* TunnelState
STARTING == "starting"
RUNNING == "running"
FAILED == "failed"
STOPPING == "stopping"
STOPPED == "stopped"
TunnelState == {STARTING, RUNNING, FAILED, STOPPING, STOPPED}

\* A process handle: "none" is process = pid = None; otherwise the handle
\* names an OS process that is up (alive, port listening), mute (alive,
\* port not listening) or dead.
Live == {"up", "mute"}
ProcStatus == {"none", "up", "mute", "dead"}

VARIABLES
    dstate, dproc, drc,           \* DNSTTTunnel: state, process/pid, restart_count
    sstate, sproc, src, sreg,     \* SSHTunnel: state, process/pid, restart_count, xui_outbound_id is set
    running, shutdown,            \* TunnelManager.running, _shutdown_event
    pc, ctx, curT, curS,          \* per thread: position, call site, tunnel_id, ssh_id
    lproc, loid,                  \* per thread: the local `process` and `outbound_id` of a start
    lreload,                      \* per thread: the start has called reload_xray (line 345)
    raised,                       \* monitor_loop: passes left through `except Exception` (line 554) so far
    started,                      \* initialize_tunnels' start loop: calls of start_dnstt_tunnel and start_ssh_tunnel per record, and the tunnels whose start returned True
    lrem,                         \* per thread: the stop read an xui_outbound_id at line 387 and its remove_outbound is in flight
    registry, acked,              \* the registry: outbounds held per child; last acknowledged operation was an add
    kills,                        \* out-of-band kills so far
    wasStoppedS, wasStoppedD,     \* per thread: the record (the tunnel and its children) was stopped when the stop call began
    effectS, effectD,             \* per thread: the stop call has issued a registry remove or signalled a process
    cl,                           \* the XUIClient call followed on its own: operation, position, attempt, endpoint, credentials, result
    config, plan,                 \* the tunnels section of the configuration; the ports initialize_tunnels gave the records
    trialKey, trialPasses         \* the child killed out-of-band whose recovery is awaited (<<>>: none), and the passes begun since

recs == <<dstate, dproc, drc, sstate, sproc, src, sreg>>
locals == <<pc, ctx, curT, curS, lproc, loid, lreload, lrem>>
vars == <<dstate, dproc, drc, sstate, sproc, src, sreg, running, shutdown,
          pc, ctx, curT, curS, lproc, loid, lreload, lrem, registry, acked, kills,
          started, raised,
          wasStoppedS, wasStoppedD, effectS, effectD, cl, config, plan,
          trialKey, trialPasses>>
trial == <<trialKey, trialPasses>>
calls == <<wasStoppedS, wasStoppedD, effectS, effectD>>
fleet == <<recs, locals, running, shutdown, registry, acked, kills, calls, trial,
           started, raised>>

\* ------------------------------------------------------------- the plan

\* initialize_tunnels line 427: local_port of DNSTT record t
LocalPort(c, t) == c.dnstt_start_port + t

\* initialize_tunnels lines 437-439: socks5_port of SSH record (t, s)
Socks5Port(c, t, s) == c.socks_start_port + (t * c.socks_ports_per_tunnel) + s

\* initialize_tunnels lines 424-447: one DNSTT record per tunnel_id in
\* range(dnstt_count), one SSH record per ssh_id in range(ssh_per_dnstt)
\* under each, with their ports and the state they are constructed with
\* (state=TunnelState.STARTING at line 431, state=TunnelState.STOPPED at 445)
Plan(c) ==
    [local_port |-> [t \in 0 .. (c.dnstt_count - 1) |-> LocalPort(c, t)],
     socks5_port |-> [k \in (0 .. (c.dnstt_count - 1)) \X (0 .. (c.ssh_per_dnstt - 1))
                        |-> Socks5Port(c, k[1], k[2])],
     dnstt_state |-> [t \in 0 .. (c.dnstt_count - 1) |-> STARTING],
     ssh_state |-> [k \in (0 .. (c.dnstt_count - 1)) \X (0 .. (c.ssh_per_dnstt - 1))
                      |-> STOPPED]]

\* __init__ lines 80-140: dnstt_tunnels and ssh_tunnels are empty
NoPlan ==
    [local_port |-> [t \in {} |-> 0], socks5_port |-> [k \in {} |-> 0],
     dnstt_state |-> [t \in {} |-> STOPPED], ssh_state |-> [k \in {} |-> STOPPED]]

\* the configuration of the runs followed below: the defaults of __init__
\* lines 109-111 for the ports, the counts as bounded above
RunConfig ==
    [dnstt_count |-> DnsttCount, ssh_per_dnstt |-> SshPerDnstt,
     dnstt_start_port |-> 1080, socks_start_port |-> 9090,
     socks_ports_per_tunnel |-> 100]

\* ----------------------------------------------------------------- Init

\* The records and the threads when initialize_tunnels has built the plan
\* and is about to start the first DNSTT tunnel: start() has set running
\* and cleared the shutdown event, the monitor thread does not exist yet.
FleetAtStart ==
    /\ dstate = [t \in Tunnels |-> STARTING]
    /\ dproc = [t \in Tunnels |-> "none"]
    /\ drc = [t \in Tunnels |-> 0]
    /\ sstate = [k \in Slots |-> STOPPED]
    /\ sproc = [k \in Slots |-> "none"]
    /\ src = [k \in Slots |-> 0]
    /\ sreg = [k \in Slots |-> FALSE]
    /\ running = TRUE
    /\ shutdown = FALSE
    /\ pc = [th \in Threads |-> IF th = "entry" THEN "sd_spawn" ELSE "m_off"]
    /\ ctx = [th \in Threads |-> IF th = "entry" THEN "init" ELSE "idle"]
    /\ curT = [th \in Threads |-> 0]
    /\ curS = [th \in Threads |-> 0]
    /\ lproc = [th \in Threads |-> "none"]
    /\ loid = [th \in Threads |-> FALSE]
    /\ lreload = [th \in Threads |-> FALSE]
    /\ lrem = [th \in Threads |-> FALSE]
    /\ raised = 0
    /\ started = [dnstt |-> [t \in Tunnels |-> 0], ssh |-> [k \in Slots |-> 0],
                  ok |-> [t \in Tunnels |-> FALSE]]
    /\ registry = [k \in Slots |-> 0]
    /\ acked = [k \in Slots |-> FALSE]
    /\ kills = 0
    /\ wasStoppedS = [th \in Threads |-> FALSE]
    /\ wasStoppedD = [th \in Threads |-> FALSE]
    /\ effectS = [th \in Threads |-> FALSE]
    /\ effectD = [th \in Threads |-> FALSE]
    /\ trialKey = <<>>
    /\ trialPasses = 0

\* no XUIClient call is followed on its own
NoCall ==
    [op |-> "none", retry_count |-> 0, pc |-> "idle", attempt |-> 0,
     endpoint |-> 0, auth |-> FALSE, result |-> "pending", requests |-> 0,
     owed |-> {}, won |-> FALSE, last |-> "none"]

\* the supervisor at the start of initialize_tunnels' start loop
Init ==
    /\ FleetAtStart
    /\ config = RunConfig
    /\ plan = Plan(config)
    /\ cl = NoCall

\* ------------------------------------------------- where a thread goes on

At(p, c, t, s) == [p |-> p, c |-> c, t |-> t, s |-> s]

\* monitor_loop: the thread is at the head of the while loop (or asleep in
\* _shutdown_event.wait) between two passes
LoopHead == At("m_loop", "idle", 0, 0)

\* a start loop that ends after its first tunnel
InitStopsEarly(t) == At("e_main", "idle", 0, 0)

\* initialize_tunnels: the next iteration of `for tunnel_id in range(dnstt_count)`;
\* after the last one start() creates the monitor thread
NextInitTunnel(t) ==
    IF t + 1 < config.dnstt_count THEN At("sd_spawn", "init", t + 1, 0)
    ELSE At("e_main", "idle", 0, 0)

\* monitor_loop: the next key of list(self.ssh_tunnels.items()), in insertion order
NextChild(t, s) ==
    IF s + 1 < config.ssh_per_dnstt THEN At("m_child", "pass", t, s + 1)
    ELSE IF t + 1 < config.dnstt_count THEN At("m_child", "pass", t + 1, 0)
    ELSE LoopHead

\* a pass that turns to the SSH records after its first DNSTT record
ParentsCutShort(t) == At("m_child", "pass", 0, 0)

\* monitor_loop: the next key of list(self.dnstt_tunnels.items()), then the SSH loop
NextParent(t) ==
    IF t + 1 < config.dnstt_count THEN At("m_parent", "pass", t + 1, 0)
    ELSE IF config.ssh_per_dnstt > 0 THEN At("m_child", "pass", 0, 0)
    ELSE LoopHead

\* a start loop that goes on to the SSH sessions whatever start_dnstt_tunnel returned
ChildrenRegardless(c, t, ok) == At("ss_spawn", "init", t, 0)

\* what start_dnstt_tunnel's caller does with its result
AfterStartDnstt(c, t, ok) ==
    IF c = "init"
    THEN IF ok /\ config.ssh_per_dnstt > 0 THEN At("ss_spawn", "init", t, 0)
         ELSE NextInitTunnel(t)
    ELSE IF ok
         THEN IF config.ssh_per_dnstt > 0 THEN At("m_kid", "mp_restart", t, 0)
              ELSE At("m_reset", "mp_restart", t, 0)
         ELSE NextParent(t)

\* a monitor that goes on to the next tunnel after the children of a
\* relaunch without the reset of line 505
ResetSkipped(c, t, s) ==
    IF c = "init"
    THEN IF s + 1 < config.ssh_per_dnstt THEN At("ss_spawn", "init", t, s + 1)
         ELSE NextInitTunnel(t)
    ELSE IF c = "mp_restart"
    THEN IF s + 1 < config.ssh_per_dnstt THEN At("m_kid", "mp_restart", t, s + 1)
         ELSE NextParent(t)
    ELSE NextChild(t, s)

\* what start_ssh_tunnel's caller does next (no caller branches on a failure
\* other than to skip the counter reset)
AfterStartSsh(c, t, s) ==
    IF c = "init"
    THEN IF s + 1 < config.ssh_per_dnstt THEN At("ss_spawn", "init", t, s + 1)
         ELSE NextInitTunnel(t)
    ELSE IF c = "mp_restart"
    THEN IF s + 1 < config.ssh_per_dnstt THEN At("m_kid", "mp_restart", t, s + 1)
         ELSE At("m_reset", "mp_restart", t, 0)
    ELSE NextChild(t, s)

\* what follows stop_ssh_tunnel: the next child of stop_dnstt_tunnel's loop,
\* or the monitor's restart of the child, or the monitor's next child
AfterStopSsh(c, t, s) ==
    IF c \in {"stop", "mp_restart", "mp_exhaust"}
    THEN IF s + 1 < config.ssh_per_dnstt THEN At("ps_mark", c, t, s + 1)
         ELSE At("pd_kill", c, t, 0)
    ELSE IF c = "mc_restart" THEN At("ss_spawn", c, t, s)
    ELSE NextChild(t, s)

\* what follows stop_dnstt_tunnel: stop()'s next tunnel, the monitor's
\* relaunch, or the monitor's next tunnel
AfterStopDnstt(c, t) ==
    IF c = "stop"
    THEN IF t + 1 < config.dnstt_count THEN At("pd_mark", "stop", t + 1, 0)
         ELSE At("e_exit", "idle", 0, 0)
    ELSE IF c = "mp_restart" THEN At("sd_spawn", c, t, 0)
    ELSE NextParent(t)

\* thread th continues at j; start() creates the monitor thread when
\* initialize_tunnels returns
Jump(th, j) ==
    /\ pc' = IF j.p = "e_main"
             THEN [pc EXCEPT ![th] = j.p, !["mon"] = "m_loop"]
             ELSE [pc EXCEPT ![th] = j.p]
    /\ ctx' = [ctx EXCEPT ![th] = j.c]
    /\ curT' = [curT EXCEPT ![th] = j.t]
    /\ curS' = [curS EXCEPT ![th] = j.s]

\* the interpreter has not exited (the monitor is a daemon thread: it ends
\* with the entry thread)
Alive == pc["entry"] # "e_gone"

\* the record the thread's current call is about
Key(th) == <<curT[th], curS[th]>>

\* --------------------------------------------- the awaited round trip

\* the recovery of a child is awaited from the moment it is killed
\* out-of-band while RUNNING, with a listening process, under a RUNNING
\* parent whose process listens, and the supervisor is not shutting down
Eligible(k) ==
    /\ sstate[k] = RUNNING /\ sproc[k] = "up"
    /\ dstate[k[1]] = RUNNING /\ dproc[k[1]] = "up"
    /\ ~shutdown

\* nothing is awaited (any more): the child is RUNNING again, or the
\* environment has disturbed the fleet again
NoTrial == trialKey' = <<>> /\ trialPasses' = 0

\* a start whose process does not come up and listen ends the wait
TrialSpawn(o) == IF o = "up" THEN UNCHANGED trial ELSE NoTrial

\* ------------------------------------------------------ start_dnstt_tunnel

\* what subprocess.Popen can give: a process that comes up and listens, one
\* that stays alive without listening, one that exits at once, or no
\* process at all (Popen raises: the binary cannot be executed)
SpawnOutcomes == {"up", "mute", "dead", "none"}

\* lines 157-178: build the command, Popen, then sleep(2)
SdSpawn(th) ==
    /\ UNCHANGED <<config, plan, cl, raised>>
    /\ started' = IF ctx[th] = "init"
                  THEN [started EXCEPT !.dnstt[curT[th]] = @ + 1] ELSE started
    /\ UNCHANGED <<lrem, lreload>>
    /\ Alive /\ pc[th] = "sd_spawn"
    /\ \E o \in SpawnOutcomes :
        /\ TrialSpawn(o)
        /\ IF o = "none"
           THEN /\ Jump(th, AfterStartDnstt(ctx[th], curT[th], FALSE))
                /\ UNCHANGED lproc
           ELSE /\ lproc' = [lproc EXCEPT ![th] = o]
                /\ pc' = [pc EXCEPT ![th] = "sd_check"]
                /\ UNCHANGED <<ctx, curT, curS>>
    /\ UNCHANGED <<recs, running, shutdown, loid, registry, acked, kills, calls>>

\* a start that takes any spawned process for ready
ReadyAlways(p) == TRUE

\* lines 181 and 185-190 (315 and 321-325): the process has not exited and
\* its port was seen listening within the polls
Ready(p) == p = "up"

\* lines 180-199: process.poll(), then check_dnstt_port up to six times; a
\* process that never listens is terminated (and killed after 5 s) and the
\* call returns False without touching the record
SdCheck(th) ==
    /\ UNCHANGED <<config, plan, cl, started, raised>>
    /\ UNCHANGED <<lrem, lreload>>
    /\ Alive /\ pc[th] = "sd_check"
    /\ IF Ready(lproc[th])
       THEN /\ pc' = [pc EXCEPT ![th] = "sd_commit"]
            /\ UNCHANGED <<ctx, curT, curS, lproc>>
       ELSE /\ lproc' = [lproc EXCEPT ![th] = "none"]
            /\ Jump(th, AfterStartDnstt(ctx[th], curT[th], FALSE))
    /\ UNCHANGED <<recs, running, shutdown, loid, registry, acked, kills, calls>>
    /\ UNCHANGED trial

\* lines 201-211: under the lock, the record takes the process and becomes RUNNING
SdCommit(th) ==
    /\ UNCHANGED <<config, plan, cl, raised>>
    /\ started' = IF ctx[th] = "init"
                  THEN [started EXCEPT !.ok[curT[th]] = TRUE] ELSE started
    /\ UNCHANGED <<lrem, lreload>>
    /\ Alive /\ pc[th] = "sd_commit"
    /\ dproc' = [dproc EXCEPT ![curT[th]] = lproc[th]]
    /\ dstate' = [dstate EXCEPT ![curT[th]] = RUNNING]
    /\ lproc' = [lproc EXCEPT ![th] = "none"]
    /\ Jump(th, AfterStartDnstt(ctx[th], curT[th], TRUE))
    /\ UNCHANGED <<drc, sstate, sproc, src, sreg, running, shutdown, loid,
                   registry, acked, kills, calls>>
    /\ UNCHANGED trial

\* -------------------------------------------------------- start_ssh_tunnel

\* lines 286-312: build the command, Popen, then sleep(2)
SsSpawn(th) ==
    /\ UNCHANGED <<config, plan, cl, raised>>
    /\ started' = IF ctx[th] = "init"
                  THEN [started EXCEPT !.ssh[Key(th)] = @ + 1] ELSE started
    /\ UNCHANGED <<lrem, lreload>>
    /\ Alive /\ pc[th] = "ss_spawn"
    /\ \E o \in SpawnOutcomes :
        /\ TrialSpawn(o)
        /\ IF o = "none"
           THEN /\ Jump(th, AfterStartSsh(ctx[th], curT[th], curS[th]))
                /\ UNCHANGED lproc
           ELSE /\ lproc' = [lproc EXCEPT ![th] = o]
                /\ pc' = [pc EXCEPT ![th] = "ss_check"]
                /\ UNCHANGED <<ctx, curT, curS>>
    /\ UNCHANGED <<recs, running, shutdown, loid, registry, acked, kills, calls>>

\* lines 314-334: process.poll(), then is_port_listening up to six times
SsCheck(th) ==
    /\ UNCHANGED <<config, plan, cl, started, raised>>
    /\ UNCHANGED <<lrem, lreload>>
    /\ Alive /\ pc[th] = "ss_check"
    /\ IF Ready(lproc[th])
       THEN /\ pc' = [pc EXCEPT ![th] = "ss_reg"]
            /\ UNCHANGED <<ctx, curT, curS, lproc>>
       ELSE /\ lproc' = [lproc EXCEPT ![th] = "none"]
            /\ Jump(th, AfterStartSsh(ctx[th], curT[th], curS[th]))
    /\ UNCHANGED <<recs, running, shutdown, loid, registry, acked, kills, calls>>
    /\ UNCHANGED trial

\* a start that reloads Xray whatever add_socks5_outbound returned
ReloadsAlways(oid) == TRUE

\* lines 343-345: `if outbound_id:` reload_xray() is called
Reloads(oid) == oid

\* lines 336-345: add_socks5_outbound returns an id (the registry took the
\* outbound) or None (every attempt failed); reload_xray after an id
SsReg(th) ==
    /\ UNCHANGED <<config, plan, cl, started, raised>>
    /\ UNCHANGED lrem
    /\ Alive /\ pc[th] = "ss_reg"
    /\ \E ok \in BOOLEAN :
          IF ok /\ registry[Key(th)] < MaxEntries
          THEN /\ registry' = [registry EXCEPT ![Key(th)] = @ + 1]
               /\ acked' = [acked EXCEPT ![Key(th)] = TRUE]
               /\ loid' = [loid EXCEPT ![th] = TRUE]
               /\ lreload' = [lreload EXCEPT ![th] = Reloads(TRUE)]
          ELSE /\ loid' = [loid EXCEPT ![th] = FALSE]
               /\ lreload' = [lreload EXCEPT ![th] = Reloads(FALSE)]
               /\ UNCHANGED <<registry, acked>>
    /\ pc' = [pc EXCEPT ![th] = "ss_commit"]
    /\ UNCHANGED <<recs, running, shutdown, ctx, curT, curS, lproc, kills, calls>>
    /\ UNCHANGED trial

\* the child's restart_count after a start that succeeded: monitor_loop
\* line 544 resets it in the child's own restart, line 503 (the restart
\* after a parent relaunch) and initialize_tunnels leave it alone
RcAfterStart(c, rc) == IF c = "mc_restart" THEN 0 ELSE rc

\* lines 347-359: under the lock, the record takes the process and the
\* outbound id and becomes RUNNING; the call returns True
SsCommit(th) ==
    /\ UNCHANGED <<config, plan, cl, started, raised>>
    /\ UNCHANGED lrem
    /\ Alive /\ pc[th] = "ss_commit"
    /\ sproc' = [sproc EXCEPT ![Key(th)] = lproc[th]]
    /\ sstate' = [sstate EXCEPT ![Key(th)] = RUNNING]
    /\ sreg' = [sreg EXCEPT ![Key(th)] = loid[th]]
    /\ src' = [src EXCEPT ![Key(th)] = RcAfterStart(ctx[th], @)]
    /\ lproc' = [lproc EXCEPT ![th] = "none"]
    /\ loid' = [loid EXCEPT ![th] = FALSE]
    /\ lreload' = [lreload EXCEPT ![th] = FALSE]
    /\ Jump(th, AfterStartSsh(ctx[th], curT[th], curS[th]))
    /\ UNCHANGED <<dstate, dproc, drc, running, shutdown, registry, acked, kills, calls>>
    /\ IF Key(th) = trialKey THEN NoTrial ELSE UNCHANGED trial

\* ------------------------------------------------- stopping, shared parts

\* a stop that signals the process group whatever the record holds
SignalledAlways(p) == TRUE

\* lines 246-251 and 393-398: the process group is signalled when the
\* record has a process and a pid and psutil.pid_exists(pid); a signal to
\* what is left of a dead process changes nothing and is not counted
Signalled(p) == p \in Live

\* a final block that leaves process and pid as they are
KeepHandle(h, r) == h

\* lines 267-268 and 414-415: process = None, pid = None
NoHandle(h, r) == [h EXCEPT ![r] = "none"]

\* --------------------------------------------------------- stop_ssh_tunnel

\* the state a stop leaves a child in: STOPPED, process = pid = None,
\* xui_outbound_id = None
SshIsStopped(k) == sstate[k] = STOPPED /\ sproc[k] = "none" /\ ~sreg[k]

\* lines 378-387: under the lock, the record becomes STOPPING; then the
\* record's xui_outbound_id is read and, if there is one, remove_outbound
\* is called with it
PsMark(th) ==
    /\ UNCHANGED <<config, plan, cl, started, raised>>
    /\ UNCHANGED lreload
    /\ Alive /\ pc[th] = "ps_mark"
    /\ sstate' = [sstate EXCEPT ![Key(th)] = STOPPING]
    /\ lrem' = [lrem EXCEPT ![th] = sreg[Key(th)]]
    /\ pc' = [pc EXCEPT ![th] = "ps_unreg"]
    /\ wasStoppedS' = [wasStoppedS EXCEPT ![th] = SshIsStopped(Key(th))]
    /\ effectS' = [effectS EXCEPT ![th] = FALSE]
    /\ UNCHANGED <<dstate, dproc, drc, sproc, src, sreg, running, shutdown,
                   ctx, curT, curS, lproc, loid, registry, acked, kills,
                   wasStoppedD, effectD>>
    /\ UNCHANGED trial

\* lines 388-390: remove_outbound returns (its result is not read) and
\* reload_xray follows; the registry drops the outbound or every attempt fails
PsUnreg(th) ==
    /\ UNCHANGED <<config, plan, cl, started, raised>>
    /\ UNCHANGED lreload
    /\ Alive /\ pc[th] = "ps_unreg"
    /\ lrem' = [lrem EXCEPT ![th] = FALSE]
    /\ IF lrem[th]
       THEN /\ \E ok \in BOOLEAN :
                 IF ok
                 THEN /\ registry' = [registry EXCEPT
                                         ![Key(th)] = IF @ > 0 THEN @ - 1 ELSE 0]
                      /\ acked' = [acked EXCEPT ![Key(th)] = FALSE]
                 ELSE UNCHANGED <<registry, acked>>
            /\ effectS' = [effectS EXCEPT ![th] = TRUE]
            /\ effectD' = [effectD EXCEPT ![th] = TRUE]
       ELSE UNCHANGED <<registry, acked, effectS, effectD>>
    /\ pc' = [pc EXCEPT ![th] = "ps_kill"]
    /\ UNCHANGED <<recs, running, shutdown, ctx, curT, curS, lproc, loid, kills,
                   wasStoppedS, wasStoppedD>>
    /\ UNCHANGED trial

\* lines 392-410: with a handle whose pid exists, SIGTERM to the process
\* group, wait 5 s, SIGKILL and wait
PsKill(th) ==
    /\ UNCHANGED <<config, plan, cl, started, raised>>
    /\ UNCHANGED <<lrem, lreload>>
    /\ Alive /\ pc[th] = "ps_kill"
    /\ IF Signalled(sproc[Key(th)])
       THEN /\ sproc' = [sproc EXCEPT ![Key(th)] = "dead"]
            /\ effectS' = [effectS EXCEPT ![th] = TRUE]
            /\ effectD' = [effectD EXCEPT ![th] = TRUE]
       ELSE UNCHANGED <<sproc, effectS, effectD>>
    /\ pc' = [pc EXCEPT ![th] = "ps_final"]
    /\ UNCHANGED <<dstate, dproc, drc, sstate, src, sreg, running, shutdown,
                   ctx, curT, curS, lproc, loid, registry, acked, kills,
                   wasStoppedS, wasStoppedD>>
    /\ UNCHANGED trial

\* lines 412-419: under the lock, STOPPED with no process, pid or outbound id
PsFinal(th) ==
    /\ UNCHANGED <<config, plan, cl, started, raised>>
    /\ UNCHANGED <<lrem, lreload>>
    /\ Alive /\ pc[th] = "ps_final"
    /\ sstate' = [sstate EXCEPT ![Key(th)] = STOPPED]
    /\ sproc' = NoHandle(sproc, Key(th))
    /\ sreg' = [sreg EXCEPT ![Key(th)] = FALSE]
    /\ Jump(th, AfterStopSsh(ctx[th], curT[th], curS[th]))
    /\ wasStoppedS' = [wasStoppedS EXCEPT ![th] = FALSE]
    /\ effectS' = [effectS EXCEPT ![th] = FALSE]
    /\ UNCHANGED <<dstate, dproc, drc, src, running, shutdown, lproc, loid,
                   registry, acked, kills, wasStoppedD, effectD>>
    /\ UNCHANGED trial

\* ------------------------------------------------------- stop_dnstt_tunnel

\* the state a stop leaves a tunnel in: the parent STOPPED with no process
\* or pid, every child of it stopped
DnsttIsStopped(t) ==
    /\ dstate[t] = STOPPED /\ dproc[t] = "none"
    /\ \A s \in 0 .. (config.ssh_per_dnstt - 1) : SshIsStopped(<<t, s>>)

\* lines 227-240: under the lock, the record becomes STOPPING; then the
\* children of this tunnel are collected
PdMark(th) ==
    /\ UNCHANGED <<config, plan, cl, started, raised>>
    /\ UNCHANGED <<lrem, lreload>>
    /\ Alive /\ pc[th] = "pd_mark"
    /\ dstate' = [dstate EXCEPT ![curT[th]] = STOPPING]
    /\ pc' = [pc EXCEPT ![th] = IF config.ssh_per_dnstt > 0 THEN "ps_mark" ELSE "pd_kill"]
    /\ curS' = [curS EXCEPT ![th] = 0]
    /\ wasStoppedD' = [wasStoppedD EXCEPT ![th] = DnsttIsStopped(curT[th])]
    /\ effectD' = [effectD EXCEPT ![th] = FALSE]
    /\ UNCHANGED <<dproc, drc, sstate, sproc, src, sreg, running, shutdown,
                   ctx, curT, lproc, loid, registry, acked, kills,
                   wasStoppedS, effectS>>
    /\ UNCHANGED trial

\* lines 245-263: with a handle whose pid exists, SIGTERM to the process
\* group, wait 5 s, SIGKILL and wait
PdKill(th) ==
    /\ UNCHANGED <<config, plan, cl, started, raised>>
    /\ UNCHANGED <<lrem, lreload>>
    /\ Alive /\ pc[th] = "pd_kill"
    /\ IF Signalled(dproc[curT[th]])
       THEN /\ dproc' = [dproc EXCEPT ![curT[th]] = "dead"]
            /\ effectD' = [effectD EXCEPT ![th] = TRUE]
       ELSE UNCHANGED <<dproc, effectD>>
    /\ pc' = [pc EXCEPT ![th] = "pd_final"]
    /\ UNCHANGED <<dstate, drc, sstate, sproc, src, sreg, running, shutdown,
                   ctx, curT, curS, lproc, loid, registry, acked, kills,
                   wasStoppedS, wasStoppedD, effectS>>
    /\ UNCHANGED trial

\* a final block that writes STOPPED into every DNSTT record
DnsttAllStopped(t) == [u \in Tunnels |-> STOPPED]

\* the DNSTT states after line 266: this tunnel STOPPED
DnsttStopped(t) == [dstate EXCEPT ![t] = STOPPED]

\* lines 265-271: under the lock, STOPPED with no process or pid
PdFinal(th) ==
    /\ UNCHANGED <<config, plan, cl, started, raised>>
    /\ UNCHANGED <<lrem, lreload>>
    /\ Alive /\ pc[th] = "pd_final"
    /\ dstate' = DnsttStopped(curT[th])
    /\ dproc' = NoHandle(dproc, curT[th])
    /\ Jump(th, AfterStopDnstt(ctx[th], curT[th]))
    /\ wasStoppedD' = [wasStoppedD EXCEPT ![th] = FALSE]
    /\ effectD' = [effectD EXCEPT ![th] = FALSE]
    /\ UNCHANGED <<drc, sstate, sproc, src, sreg, running, shutdown, lproc, loid,
                   registry, acked, kills, wasStoppedS, effectS>>
    /\ UNCHANGED trial

\* ------------------------------------------------------------ monitor_loop

\* line 474 and line 552: the loop ends when the shutdown event is set,
\* otherwise the next pass begins with the first DNSTT record
MLoop ==
    /\ UNCHANGED <<config, plan, cl, started, raised>>
    /\ UNCHANGED <<lrem, lreload>>
    /\ Alive /\ pc["mon"] = "m_loop"
    /\ IF shutdown
       THEN Jump("mon", At("m_exit", "idle", 0, 0))
       ELSE Jump("mon", At("m_parent", "pass", 0, 0))
    /\ UNCHANGED <<recs, running, shutdown, lproc, loid, registry, acked, kills, calls>>
    /\ trialKey' = trialKey
    /\ trialPasses' = IF ~shutdown /\ trialKey # <<>> /\ trialPasses < MaxRetries
                      THEN trialPasses + 1 ELSE trialPasses

\* lines 490 and 535: the restart branch or the "exceeded max retries" branch
Within(rc) == rc <= MaxRetries

\* a monitor that examines every record, whatever its state
ExaminedAlways(st) == TRUE

\* lines 478-479, 518-520 and 522-523: the monitor passes over a record
\* that is not RUNNING, and over a child whose parent is not RUNNING
Examined(st) == st = RUNNING

\* lines 477-492 and 506-510: a RUNNING tunnel whose process is gone or
\* whose port does not listen becomes FAILED, its restart_count grows, and
\* it is stopped: to be relaunched, or for good
MParent ==
    /\ UNCHANGED <<config, plan, cl, started, raised>>
    /\ UNCHANGED <<lrem, lreload>>
    /\ Alive /\ pc["mon"] = "m_parent"
    /\ LET t == curT["mon"] IN
       IF Examined(dstate[t]) /\ dproc[t] # "up"
       THEN /\ dstate' = [dstate EXCEPT ![t] = FAILED]
            /\ drc' = [drc EXCEPT ![t] = @ + 1]
            /\ Jump("mon", At("pd_mark",
                              IF Within(drc[t] + 1) THEN "mp_restart" ELSE "mp_exhaust",
                              t, 0))
       ELSE /\ Jump("mon", NextParent(t))
            /\ UNCHANGED <<dstate, drc>>
    /\ UNCHANGED <<dproc, sstate, sproc, src, sreg, running, shutdown, lproc, loid,
                   registry, acked, kills, calls>>
    /\ UNCHANGED trial

\* lines 497-503: after a relaunch, each child of the tunnel is put in
\* STOPPED and started
MKid ==
    /\ UNCHANGED <<config, plan, cl, started, raised>>
    /\ UNCHANGED <<lrem, lreload>>
    /\ Alive /\ pc["mon"] = "m_kid"
    /\ sstate' = [sstate EXCEPT ![Key("mon")] = STOPPED]
    /\ pc' = [pc EXCEPT !["mon"] = "ss_spawn"]
    /\ UNCHANGED <<dstate, dproc, drc, sproc, src, sreg, running, shutdown,
                   ctx, curT, curS, lproc, loid, registry, acked, kills, calls>>
    /\ UNCHANGED trial

\* line 505: after the children, the tunnel's restart_count is reset
MReset ==
    /\ UNCHANGED <<config, plan, cl, started, raised>>
    /\ UNCHANGED <<lrem, lreload>>
    /\ Alive /\ pc["mon"] = "m_reset"
    /\ drc' = [drc EXCEPT ![curT["mon"]] = 0]
    /\ Jump("mon", NextParent(curT["mon"]))
    /\ UNCHANGED <<dstate, dproc, sstate, sproc, src, sreg, running, shutdown,
                   lproc, loid, registry, acked, kills, calls>>
    /\ UNCHANGED trial

\* lines 513-537 and 545-549: a RUNNING child of a RUNNING parent whose
\* process is gone or whose SOCKS5 port is not healthy becomes FAILED, its
\* restart_count grows, and it is stopped: to be restarted, or for good
MChild ==
    /\ UNCHANGED <<config, plan, cl, started, raised>>
    /\ UNCHANGED <<lrem, lreload>>
    /\ Alive /\ pc["mon"] = "m_child"
    /\ LET k == Key("mon") IN
       IF Examined(dstate[k[1]]) /\ Examined(sstate[k]) /\ sproc[k] # "up"
       THEN /\ sstate' = [sstate EXCEPT ![k] = FAILED]
            /\ src' = [src EXCEPT ![k] = @ + 1]
            /\ Jump("mon", At("ps_mark",
                              IF Within(src[k] + 1) THEN "mc_restart" ELSE "mc_exhaust",
                              k[1], k[2]))
       ELSE /\ Jump("mon", NextChild(k[1], k[2]))
            /\ UNCHANGED <<sstate, src>>
    /\ UNCHANGED <<dstate, dproc, drc, sproc, sreg, running, shutdown, lproc, loid,
                   registry, acked, kills, calls>>
    /\ UNCHANGED trial

\* ------------------------------------------------- stop() and the process

\* main.py signal_handler and TunnelManager.stop lines 579-589: SIGINT or
\* SIGTERM reaches the entry thread during start-up or in its main loop;
\* the handler calls stop(), which clears running, sets the shutdown event
\* and stops the tunnels in id order.  The start the signal interrupted is
\* abandoned with its local process.
Signal ==
    /\ UNCHANGED <<config, plan, cl, started, raised>>
    /\ UNCHANGED lrem
    /\ running /\ pc["entry"] \notin {"e_exit", "e_gone"} /\ ctx["entry"] # "stop"
    /\ running' = FALSE
    /\ shutdown' = TRUE
    /\ Jump("entry", At("pd_mark", "stop", 0, 0))
    /\ lproc' = [lproc EXCEPT !["entry"] = "none"]
    /\ loid' = [loid EXCEPT !["entry"] = FALSE]
    /\ lreload' = [lreload EXCEPT !["entry"] = FALSE]
    /\ UNCHANGED <<recs, registry, acked, kills, calls>>
    /\ NoTrial

\* the same, delivered while the entry thread sits in main()'s loop and the
\* monitor sleeps between two passes
SignalAtRest ==
    /\ pc["entry"] = "e_main" /\ pc["mon"] = "m_loop"
    /\ Signal

\* main.py line 117: sys.exit(0) after stop() returned ends the process and
\* with it the daemon monitor thread
Exit ==
    /\ UNCHANGED <<config, plan, cl, started, raised>>
    /\ UNCHANGED <<lrem, lreload>>
    /\ pc["entry"] = "e_exit"
    /\ pc' = [pc EXCEPT !["entry"] = "e_gone"]
    /\ UNCHANGED <<recs, running, shutdown, ctx, curT, curS, lproc, loid,
                   registry, acked, kills, calls>>
    /\ UNCHANGED trial

\* ------------------------------------------------------------ environment

\* a tunnel process dies out-of-band: one a record holds, or one a start
\* has spawned and not yet recorded
KillDnstt(t) ==
    /\ UNCHANGED <<config, plan, cl, started, raised>>
    /\ Alive /\ kills < MaxKills /\ dproc[t] \in Live
    /\ dproc' = [dproc EXCEPT ![t] = "dead"]
    /\ kills' = kills + 1
    /\ UNCHANGED <<dstate, drc, sstate, sproc, src, sreg, running, shutdown,
                   locals, registry, acked, calls>>
    /\ NoTrial

KillSsh(k) ==
    /\ UNCHANGED <<config, plan, cl, started, raised>>
    /\ Alive /\ kills < MaxKills /\ sproc[k] \in Live
    /\ sproc' = [sproc EXCEPT ![k] = "dead"]
    /\ kills' = kills + 1
    /\ UNCHANGED <<dstate, dproc, drc, sstate, src, sreg, running, shutdown,
                   locals, registry, acked, calls>>
    /\ IF Eligible(k) THEN trialKey' = k /\ trialPasses' = 0 ELSE NoTrial

KillLocal(th) ==
    /\ UNCHANGED <<config, plan, cl, started, raised>>
    /\ UNCHANGED <<lrem, lreload>>
    /\ Alive /\ kills < MaxKills /\ lproc[th] \in Live
    /\ lproc' = [lproc EXCEPT ![th] = "dead"]
    /\ kills' = kills + 1
    /\ UNCHANGED <<recs, running, shutdown, pc, ctx, curT, curS, loid,
                   registry, acked, calls>>
    /\ NoTrial

\* one more death of a DNSTT process once the MaxKills deaths above have
\* happened
KillDnsttLate(t) ==
    /\ UNCHANGED <<config, plan, cl, started, raised>>
    /\ Alive /\ kills = MaxKills /\ dproc[t] \in Live
    /\ dproc' = [dproc EXCEPT ![t] = "dead"]
    /\ kills' = kills + 1
    /\ UNCHANGED <<dstate, drc, sstate, sproc, src, sreg, running, shutdown,
                   locals, registry, acked, calls>>
    /\ NoTrial

\* ------------------------------------------------------------------ Next

Steps ==
    \/ \E th \in Threads : SdSpawn(th)
    \/ \E th \in Threads : SdCheck(th)
    \/ \E th \in Threads : SdCommit(th)
    \/ \E th \in Threads : SsSpawn(th)
    \/ \E th \in Threads : SsCheck(th)
    \/ \E th \in Threads : SsReg(th)
    \/ \E th \in Threads : SsCommit(th)
    \/ \E th \in Threads : PsMark(th)
    \/ \E th \in Threads : PsUnreg(th)
    \/ \E th \in Threads : PsKill(th)
    \/ \E th \in Threads : PsFinal(th)
    \/ \E th \in Threads : PdMark(th)
    \/ \E th \in Threads : PdKill(th)
    \/ \E th \in Threads : PdFinal(th)
    \/ MLoop
    \/ MParent
    \/ MKid
    \/ MReset
    \/ MChild
    \/ Exit
    \/ \E t \in Tunnels : KillDnstt(t)
    \/ \E k \in Slots : KillSsh(k)
    \/ \E th \in Threads : KillLocal(th)

Next == Steps \/ Signal

Spec == Init /\ [][Next]_vars

\* the runs in which the signal arrives while both threads are at rest: no
\* start or stop of one thread overlaps a start or stop of the other; these
\* runs are followed through one more death of a DNSTT process
NextAtRest == Steps \/ SignalAtRest \/ \E t \in Tunnels : KillDnsttLate(t)

SpecAtRest == Init /\ [][NextAtRest]_vars

\* ------------------------------------------------------- the start loop

\* the tunnels sections followed through the start loop: the default ports,
\* one or more tunnels, one or more SSH sessions per tunnel
StartConfigs ==
    {[RunConfig EXCEPT !.dnstt_count = n, !.ssh_per_dnstt = m] :
        n \in 1 .. DnsttCount, m \in 1 .. MaxSlots}

InitStartup ==
    /\ FleetAtStart
    /\ config \in StartConfigs
    /\ plan = Plan(config)
    /\ cl = NoCall

\* initialize_tunnels lines 449-468 on the entry thread, before start()
\* creates the monitor thread, with processes dying out-of-band
NextStartup ==
    \/ SdSpawn("entry")
    \/ SdCheck("entry")
    \/ SdCommit("entry")
    \/ SsSpawn("entry")
    \/ SsCheck("entry")
    \/ SsReg("entry")
    \/ SsCommit("entry")
    \/ \E t \in Tunnels : KillDnstt(t)
    \/ \E k \in Slots : KillSsh(k)
    \/ KillLocal("entry")

SpecStartup == InitStartup /\ [][NextStartup]_vars

\* ------------------------------------------- exceptions in a monitor pass

\* the statements of monitor_loop's own body (the calls it makes catch
\* their exceptions themselves)
MonitorBody == {"m_parent", "m_kid", "m_reset", "m_child"}

\* an exception that ends the thread
ExceptionEndsLoop == At("m_exit", "idle", 0, 0)

\* lines 554-556: `except Exception` inside the while loop logs, sleeps 5 s
\* and leaves the thread at the head of the loop
AfterException == LoopHead

\* an exception raised in the body of a pass
MRaise ==
    /\ UNCHANGED <<config, plan, cl, started>>
    /\ Alive /\ pc["mon"] \in MonitorBody /\ raised < MaxRaises
    /\ raised' = raised + 1
    /\ Jump("mon", AfterException)
    /\ UNCHANGED <<recs, running, shutdown, lproc, loid, lreload, lrem,
                   registry, acked, kills, calls, trial>>

\* main.py: the signal arrives while the entry thread sits in main()'s
\* loop, wherever the monitor is
SignalInMain ==
    /\ pc["entry"] = "e_main"
    /\ Signal

\* a step of the monitor thread
MonitorStep ==
    \/ MLoop \/ MParent \/ MKid \/ MReset \/ MChild
    \/ SdSpawn("mon") \/ SdCheck("mon") \/ SdCommit("mon")
    \/ SsSpawn("mon") \/ SsCheck("mon") \/ SsReg("mon") \/ SsCommit("mon")
    \/ PsMark("mon") \/ PsUnreg("mon") \/ PsKill("mon") \/ PsFinal("mon")
    \/ PdMark("mon") \/ PdKill("mon") \/ PdFinal("mon")

\* a step of the entry thread: the start loop, stop() and the exit
EntryStep ==
    \/ SdSpawn("entry") \/ SdCheck("entry") \/ SdCommit("entry")
    \/ SsSpawn("entry") \/ SsCheck("entry") \/ SsReg("entry") \/ SsCommit("entry")
    \/ PsMark("entry") \/ PsUnreg("entry") \/ PsKill("entry") \/ PsFinal("entry")
    \/ PdMark("entry") \/ PdKill("entry") \/ PdFinal("entry")
    \/ Exit

\* the first out-of-band death of a process a record holds
FirstDeath ==
    /\ kills = 0
    /\ \/ \E t \in Tunnels : KillDnstt(t)
       \/ \E k \in Slots : KillSsh(k)

NextMonitor == EntryStep \/ MonitorStep \/ SignalInMain \/ MRaise \/ FirstDeath

\* the runs in which one process dies out-of-band, the signal arrives
\* after start-up and a pass may be left by an exception; the monitor
\* thread keeps being scheduled while the process lives, and every call it
\* makes returns (each sleep, wait and request is bounded by a timeout)
SpecMonitor == Init /\ [][NextMonitor]_vars /\ WF_vars(MonitorStep)

\* ------------------------------------- a signal inside a locked block

\* the locked blocks of the start functions (lines 202-208 and 348-356),
\* which the entry thread executes during initialize_tunnels
StartLockedBlocks == {"sd_commit", "ss_commit"}

\* main.py signal_handler, TunnelManager.stop lines 579-589 and
\* stop_dnstt_tunnel line 227: the signal is delivered to the entry thread
\* after it has acquired self._lock in a start (threading.Lock, line 140)
\* and before the block's assignments; the handler runs on that thread,
\* stop() clears running, sets the shutdown event and calls
\* stop_dnstt_tunnel, whose `with self._lock:` waits for the lock the
\* interrupted frame holds
SignalInLock ==
    /\ UNCHANGED <<config, plan, cl, started, raised>>
    /\ running /\ ctx["entry"] = "init" /\ pc["entry"] \in StartLockedBlocks
    /\ running' = FALSE
    /\ shutdown' = TRUE
    /\ Jump("entry", At("e_blocked", "stop", 0, 0))
    /\ UNCHANGED <<recs, lproc, loid, lreload, lrem, registry, acked, kills,
                   calls, trial>>

NextSignal == NextStartup \/ SignalInLock

\* the start loop with a signal delivered inside one of its locked blocks
SpecSignal == InitStartup /\ [][NextSignal]_vars

\* ------------------------------------------------- building the plan

\* the tunnels sections the supervisor reads without complaint (__init__
\* lines 106-111 take any values), small ones
Configs ==
    [dnstt_count : 1 .. DnsttCount, ssh_per_dnstt : 1 .. MaxPerTunnel,
     dnstt_start_port : 0 .. MaxPortBase, socks_start_port : 0 .. MaxPortBase,
     socks_ports_per_tunnel : 0 .. MaxPerTunnel]

\* initialize_tunnels lines 424-447 on a supervisor just constructed
BuildPlan ==
    /\ plan = NoPlan
    /\ plan' = Plan(config)
    /\ UNCHANGED <<fleet, config, cl>>

\* a supervisor constructed from any of the configurations; the records'
\* other fields play no part in the plan and stand as at start-up
InitPlan ==
    /\ FleetAtStart
    /\ config \in Configs
    /\ plan = NoPlan
    /\ cl = NoCall

NextPlan == BuildPlan

SpecPlan == InitPlan /\ [][NextPlan]_vars

\* ------------------------------------------------------------ XUIClient

\* the endpoints one attempt of an operation goes through (the lists at
\* lines 109-113, 183-187 and 232-236), and the default retry_count
NumEndpoints == 3
RetryCount == 3

Ops == {"add", "remove", "reload"}

\* what a request meets: a success status with a JSON body, a success
\* status with another body, 401, 404, another status, or an exception of
\* the transport (connection refused, timeout)
Responses == {"ok", "okbody", "unauthorized", "notfound", "error", "transport"}

\* the answers that carry an HTTP status
Statuses == Responses \ {"transport"}

\* lines 141, 193-198 and 242: the statuses that end the operation with
\* success; remove_outbound takes 404 for success; add_socks5_outbound
\* parses the body (line 142)
Succeeds(op, r) ==
    \/ r = "ok"
    \/ (r = "okbody" /\ op # "add")
    \/ (r = "notfound" /\ op = "remove")

\* what leaves the `try` block by an exception: the transport's, or
\* response.json() on a body that is not JSON
Raises(op, r) == r = "transport" \/ (r = "okbody" /\ op = "add")

\* a loop over the attempts that never ends
AttemptsForever(a, n) == TRUE

\* `for attempt in range(retry_count)`: another attempt follows
AttemptsLeft(a, n) == a + 1 < n

\* the end of one attempt (lines 153-160, 205-211, 251-257): the next
\* attempt starts at the first endpoint, or the operation returns None/False
EndAttempt(c) ==
    IF AttemptsLeft(c.attempt, c.retry_count)
    THEN [c EXCEPT !.attempt = @ + 1, !.endpoint = 0, !.pc = "request"]
    ELSE [c EXCEPT !.pc = "done", !.result = "none"]

\* `for endpoint in endpoints`: the next endpoint, or the end of the attempt
NextEndpoint(c) ==
    IF c.endpoint + 1 < NumEndpoints
    THEN [c EXCEPT !.endpoint = @ + 1, !.pc = "request"]
    ELSE EndAttempt(c)

\* lines 101-103, 176-178, 226-228: ensure_authenticated at the head of the
\* operation; login() when not authenticated, None/False when it fails
ClEnter ==
    /\ cl.pc = "enter"
    /\ IF cl.auth
       THEN cl' = [cl EXCEPT !.pc = "request"]
       ELSE \E ok \in BOOLEAN :
               cl' = IF ok THEN [cl EXCEPT !.auth = TRUE, !.pc = "request"]
                     ELSE [cl EXCEPT !.pc = "done", !.result = "none"]
    /\ UNCHANGED <<fleet, config, plan>>

\* lines 139-151, 191-203, 240-249: one request and what its answer leads
\* to: return on success; on 401 drop the credentials and log in again; on
\* another status the next endpoint; an exception leaves the endpoint loop
\* for the handler of lines 157-160, which ends the attempt
ClRequest ==
    /\ cl.pc = "request"
    /\ \E r \in Responses :
          LET c == [cl EXCEPT !.requests = @ + 1, !.owed = @ \ {cl.endpoint},
                              !.last = r] IN
          cl' = IF Succeeds(cl.op, r)
                THEN [c EXCEPT !.pc = "done", !.result = "ok", !.won = TRUE]
                ELSE IF r = "unauthorized"
                THEN [c EXCEPT !.auth = FALSE, !.pc = "relogin"]
                ELSE IF Raises(cl.op, r) THEN EndAttempt(c)
                ELSE NextEndpoint(c)
    /\ UNCHANGED <<fleet, config, plan>>

\* lines 148-151, 200-203, 246-249: ensure_authenticated after a 401; when
\* the login fails `break` ends the attempt, otherwise `continue` goes to
\* the next endpoint.  owed: the endpoints that answered 401 and have not
\* been asked again since the login that followed.
ClRelogin ==
    /\ cl.pc = "relogin"
    /\ \E ok \in BOOLEAN :
          cl' = IF ok
                THEN NextEndpoint([cl EXCEPT !.auth = TRUE, !.owed = @ \cup {cl.endpoint}])
                ELSE EndAttempt(cl)
    /\ UNCHANGED <<fleet, config, plan>>

\* a call of add_socks5_outbound, remove_outbound or reload_xray, with the
\* client logged in or not
InitClient ==
    /\ FleetAtStart
    /\ config = RunConfig
    /\ plan = Plan(config)
    /\ cl \in [op : Ops, retry_count : 1 .. RetryCount, pc : {"enter"},
                attempt : {0}, endpoint : {0}, auth : BOOLEAN,
                result : {"pending"}, requests : {0}, owed : {{}},
                won : {FALSE}, last : {"none"}]

NextClient == ClEnter \/ ClRequest \/ ClRelogin

\* the registry answers every request and every login in the end (the
\* requests carry timeout=10)
SpecClient == InitClient /\ [][NextClient]_vars /\ WF_vars(NextClient)

\* ---------------------------------------------------------------- claims

\* no thread is inside a start or a stop: the entry thread is in main()'s
\* loop or past stop(), the monitor is between two passes or has ended
AtRest ==
    /\ pc["entry"] \in {"e_main", "e_exit"}
    /\ pc["mon"] \in {"m_loop", "m_exit"}

\* C1 (parent-child liveness): every SSH record whose state is RUNNING has
\* a parent DNSTT record whose state is RUNNING.  Stated here only for the
\* states in which no start or stop is in progress, where the claim is at
\* its weakest; it covers every reachable state.
ParentChildLiveness ==
    AtRest => \A k \in SshKeys : sstate[k] = RUNNING => dstate[k[1]] = RUNNING

\* the supervisor runs and no thread is inside a start or a stop
Settled == pc["entry"] = "e_main" /\ pc["mon"] = "m_loop"

\* C2 (registry correspondence): a child's xui_outbound_id is set exactly
\* when the registry's last acknowledged operation for the child was an
\* add.  Stated for the settled states only, where the claim is at its
\* weakest; it covers every reachable state.
RegistryCorrespondence ==
    Settled => \A k \in SshKeys : sreg[k] <=> acked[k]

\* thread th takes the last step of stop_dnstt_tunnel
ReturnsFromStopDnstt(th) == pc[th] = "pd_final" /\ pc'[th] # "pd_final"

\* thread th takes the last step of stop_ssh_tunnel
ReturnsFromStopSsh(th) == pc[th] = "ps_final" /\ pc'[th] # "ps_final"

\* a child as a stop of its tunnel must leave it, at the least: not
\* RUNNING, with no handle and no registry id (STOPPED, unless another
\* thread has just marked it STOPPING)
ChildDown(k) == sstate[k] # RUNNING /\ sproc[k] = "none" /\ ~sreg[k]

\* C3 (cascade): when stop_dnstt_tunnel(t) returns, t is STOPPED with no
\* handle and every child of t is stopped with no handle and no registry
\* id; and when the parent's process group is signalled every child of t
\* has been stopped.  A child is taken for stopped here as soon as it is
\* not RUNNING, where the claim is at its weakest.
Cascade ==
    [][\A th \in Threads : \A t \in Tunnels :
          curT[th] = t =>
             /\ ReturnsFromStopDnstt(th) =>
                   /\ dstate'[t] = STOPPED /\ dproc'[t] = "none"
                   /\ \A s \in SshIds : ChildDown(<<t, s>>)'
             /\ (pc[th] = "pd_kill" /\ pc'[th] = "pd_final") =>
                   \A s \in SshIds : ChildDown(<<t, s>>)]_vars

\* C4 (stop idempotence): a stop_ssh_tunnel or stop_dnstt_tunnel call that
\* begins on a record an earlier stop has left stopped returns with the
\* record in that same state, and has issued no registry remove and
\* signalled no process.
StopIdempotent ==
    [][\A th \in Threads :
          /\ (ReturnsFromStopSsh(th) /\ wasStoppedS[th]) =>
                /\ ~effectS[th]
                /\ sstate'[Key(th)] = STOPPED /\ sproc'[Key(th)] = "none"
                /\ ~sreg'[Key(th)]
          /\ (ReturnsFromStopDnstt(th) /\ wasStoppedD[th]) =>
                /\ ~effectD[th]
                /\ dstate'[curT[th]] = STOPPED /\ dproc'[curT[th]] = "none"
                /\ \A s \in SshIds :
                      /\ sstate'[<<curT[th], s>>] = STOPPED
                      /\ sproc'[<<curT[th], s>>] = "none"
                      /\ ~sreg'[<<curT[th], s>>]]_vars

\* C4 witness: stop() is about to return from its stop of a tunnel that
\* the monitor had already stopped, children included
SecondStopReturns ==
    /\ pc["entry"] = "pd_final" /\ wasStoppedD["entry"]
    /\ kills > 0

\* stop() has returned
StopReturned == pc["entry"] \in {"e_exit", "e_gone"}

\* C5 (fleet shutdown): once stop() has returned every DNSTT and SSH record
\* is STOPPED with no handle (and no registry id), and the registry holds
\* no outbound added during the run.  Stated for the runs in which the
\* signal came after start-up, when the monitor thread exists.
FleetShutdown ==
    (StopReturned /\ pc["mon"] # "m_off") =>
        /\ \A t \in Tunnels : DnsttIsStopped(t)
        /\ \A k \in SshKeys : registry[k] = 0

\* the monitor's start_ssh_tunnel, in a restart, returns True
MonitorRestartedSsh == pc["mon"] = "ss_commit" /\ pc'["mon"] # "ss_commit"

\* the monitor leaves the restart of a tunnel that it relaunched
MonitorRestartedDnstt == pc["mon"] = "m_reset" /\ pc'["mon"] # "m_reset"

\* C6 (restart-budget monotonicity): a restart_count never decreases except
\* to 0, and it is 0 when the monitor has restarted the record with
\* success: a child in its own restart and in the restart that follows a
\* relaunch of its parent, a parent once its children have been started.
RestartBudget ==
    [][/\ \A t \in Tunnels : drc'[t] >= drc[t] \/ drc'[t] = 0
       /\ \A k \in SshKeys : src'[k] >= src[k] \/ src'[k] = 0
       /\ MonitorRestartedSsh => src'[Key("mon")] = 0
       /\ MonitorRestartedDnstt => drc'[curT["mon"]] = 0]_vars

\* the monitor examines DNSTT record t in its parents pass
MonitorExamines(t) ==
    /\ pc["mon"] = "m_parent" /\ curT["mon"] = t
    /\ <<pc'["mon"], curT'["mon"]>> # <<pc["mon"], curT["mon"]>>

\* C7 (budget exhaustion): a tunnel that a failed relaunch has left STOPPED
\* with its budget not exhausted (restart_count <= max_retries) is
\* relaunched when a later monitor pass examines it.
BudgetExhaustion ==
    [][\A t \in Tunnels :
          (/\ MonitorExamines(t)
           /\ ~shutdown
           /\ dstate[t] = STOPPED
           /\ drc[t] >= 1 /\ drc[t] <= MaxRetries)
          => pc'["mon"] \in {"pd_mark", "sd_spawn"}]_vars

\* the monitor takes a step of its handling of DNSTT tunnel t: the probe
\* that finds it failed, its stop, its relaunch, the restart of its
\* children, the reset of its counter
MonitorHandles(t) ==
    /\ pc["mon"] # "m_off" /\ curT["mon"] = t
    /\ pc["mon"] = "m_parent" \/ ctx["mon"] \in {"mp_restart", "mp_exhaust"}
    /\ <<pc'["mon"], curT'["mon"], curS'["mon"]>> # <<pc["mon"], curT["mon"], curS["mon"]>>

\* C8 (failure isolation): a step of the monitor's handling of tunnel t
\* leaves the state, handle, restart_count and registry id of every other
\* tunnel and of its children unchanged.
FailureIsolation ==
    [][\A t \in Tunnels :
          MonitorHandles(t) =>
             \A u \in Tunnels \ {t} :
                /\ <<dstate'[u], dproc'[u], drc'[u]>> = <<dstate[u], dproc[u], drc[u]>>
                /\ \A s \in SshIds :
                      <<sstate'[<<u, s>>], sproc'[<<u, s>>], src'[<<u, s>>], sreg'[<<u, s>>]>>
                      = <<sstate[<<u, s>>], sproc[<<u, s>>], src[<<u, s>>], sreg[<<u, s>>]>>]_vars

\* C8 witness: the monitor has stopped and relaunched a failed tunnel and
\* restarted its child while another tunnel and its child are RUNNING
RelaunchBesideRunning ==
    /\ pc["mon"] = "m_reset"
    /\ \E u \in Tunnels \ {curT["mon"]} :
          dstate[u] = RUNNING /\ \A s \in SshIds : sstate[<<u, s>>] = RUNNING

\* C9 (round-trip convergence): a RUNNING child of a RUNNING parent that
\* is killed out-of-band, with every later start coming up and no further
\* disturbance, is RUNNING again when max_retries monitor passes begun
\* after the kill have ended.
RoundTrip ==
    (pc["mon"] = "m_loop" /\ trialKey # <<>> /\ trialPasses >= MaxRetries)
    => sstate[trialKey] = RUNNING

\* C10 as claimed (handle-state equivalence): a record holds a process
\* handle if and only if its state is RUNNING.
HandleStateEquivalence ==
    /\ \A t \in Tunnels : dproc[t] # "none" <=> dstate[t] = RUNNING
    /\ \A k \in SshKeys : sproc[k] # "none" <=> sstate[k] = RUNNING

\* C10 as amended: a RUNNING record holds a handle, and a record that
\* holds a handle is RUNNING, FAILED or STOPPING (a record found failed or
\* being stopped keeps its handle until the last locked block of its stop).
HandleStateCoherence ==
    /\ \A t \in Tunnels :
          /\ dstate[t] = RUNNING => dproc[t] # "none"
          /\ dproc[t] # "none" => dstate[t] \in {RUNNING, FAILED, STOPPING}
    /\ \A k \in SshKeys :
          /\ sstate[k] = RUNNING => sproc[k] # "none"
          /\ sproc[k] # "none" => sstate[k] \in {RUNNING, FAILED, STOPPING}

\* C10 witness: a stop has marked a record STOPPING and has not yet
\* cleared its handle, and another record found failed still holds its own
HandleWhileStopping ==
    \E t \in Tunnels :
       /\ dstate[t] = STOPPING /\ dproc[t] # "none"
       /\ \E k \in SshKeys : sstate[k] = FAILED /\ sproc[k] # "none"

\* thread a is inside add_socks5_outbound for child k
Adding(a, k) == pc[a] = "ss_reg" /\ Key(a) = k

\* thread b is inside remove_outbound for child k
Removing(b, k) == pc[b] = "ps_unreg" /\ lrem[b] /\ Key(b) = k

\* C11 (registry serialization): for no child is one thread inside the
\* registry add of start_ssh_tunnel while another thread is inside the
\* registry remove of stop_ssh_tunnel for the same child.
RegistrySerialization ==
    \A k \in SshKeys : \A a \in Threads, b \in Threads :
        ~(Adding(a, k) /\ Removing(b, k))

\* C12 (no duplicate outbounds): the registry never holds more than one
\* outbound for a child.
NoDuplicateOutbounds ==
    \A k \in SshKeys : registry[k] <= 1

\* C13 (exhausted records stay stopped): a record the monitor has stopped
\* because its restart_count exceeded max_retries (it is STOPPED with
\* restart_count > max_retries) is not started again: no step takes it to
\* a state other than STOPPED, but for a later stop that marks it STOPPING
\* on its way to STOPPED.
ExhaustedStayStopped ==
    [][/\ \A t \in Tunnels :
             (dstate[t] = STOPPED /\ drc[t] > MaxRetries)
             => dstate'[t] \in {STOPPED, STOPPING}
       /\ \A k \in SshKeys :
             (sstate[k] = STOPPED /\ src[k] > MaxRetries)
             => sstate'[k] \in {STOPPED, STOPPING}]_vars

\* C14 (port disjointness): in the plan, the socks5_port values of two
\* distinct SSH records differ, the local_port values of two distinct
\* DNSTT records differ, and no local_port equals a socks5_port.
PortDisjointness ==
    /\ \A j \in DOMAIN plan.socks5_port : \A k \in DOMAIN plan.socks5_port :
          j # k => plan.socks5_port[j] # plan.socks5_port[k]
    /\ \A t \in DOMAIN plan.local_port : \A u \in DOMAIN plan.local_port :
          t # u => plan.local_port[t] # plan.local_port[u]
    /\ \A t \in DOMAIN plan.local_port : \A k \in DOMAIN plan.socks5_port :
          plan.local_port[t] # plan.socks5_port[k]

\* C15 (registry reauthentication): an operation does not fail while an
\* endpoint that answered 401 has not been asked again since the login
\* that followed the 401.
Reauthentication ==
    (cl.pc = "done" /\ cl.result = "none") => cl.owed = {}

\* C16 (endpoint probing): within one attempt, a transport error on an
\* endpoint that is not the last is followed by a request to the next
\* endpoint of the same attempt, and after an endpoint has answered with a
\* status other than 401 no further endpoint is asked in that attempt.
EndpointProbing ==
    [][(cl.pc = "request" /\ cl'.requests = cl.requests + 1) =>
          /\ (cl'.last = "transport" /\ cl.endpoint + 1 < NumEndpoints) =>
                /\ cl'.pc = "request"
                /\ cl'.attempt = cl.attempt
                /\ cl'.endpoint = cl.endpoint + 1
          /\ (cl'.last \in Statuses \ {"unauthorized"} /\ cl'.pc = "request") =>
                cl'.attempt # cl.attempt]_vars

\* C17 (bounded retry): an operation never goes beyond retry_count
\* attempts, so never beyond retry_count requests per endpoint; it returns,
\* and it returns None/False exactly when no request met success.
BoundedRetry ==
    /\ [](/\ cl.attempt < cl.retry_count
          /\ cl.requests <= cl.retry_count * NumEndpoints
          /\ cl.pc = "done" => (cl.result = "none" <=> ~cl.won))
    /\ <>(cl.pc = "done")

\* C17 witness: an operation has returned None/False after retry_count
\* attempts in which every endpoint was asked
RetriesSpent ==
    /\ cl.pc = "done" /\ cl.result = "none"
    /\ cl.retry_count = RetryCount
    /\ cl.requests = RetryCount * NumEndpoints

\* C18 (started but unpublished): when start_ssh_tunnel reaches its commit
\* with no outbound id (add_socks5_outbound returned None), the record takes
\* the process, becomes RUNNING with no registry id, and reload_xray has
\* not been called.
StartedUnpublished ==
    [][\A th \in Threads : \A k \in Slots :
          (/\ pc[th] = "ss_commit" /\ pc'[th] # "ss_commit" /\ ctx'[th] # "stop"
           /\ Key(th) = k /\ ~loid[th]) =>
              /\ sstate'[k] = RUNNING
              /\ sproc'[k] = lproc[th]
              /\ ~sreg'[k]
              /\ ~lreload[th]]_vars

\* C18 witness: a child is RUNNING with a live process, no registry id and
\* nothing in the registry
RunningUnpublished ==
    \E k \in Slots :
        sstate[k] = RUNNING /\ sproc[k] = "up" /\ ~sreg[k] /\ registry[k] = 0

\* C19 (start-up resilience): when initialize_tunnels' start loop ends,
\* start_dnstt_tunnel has been called once for every tunnel of the plan,
\* whatever the earlier starts returned; every tunnel whose start returned
\* True is RUNNING and start_ssh_tunnel has been called exactly once for
\* each of its children.
StartupResilience ==
    [][(ctx["entry"] = "init" /\ ctx'["entry"] = "idle") =>
          \A t \in 0 .. (config.dnstt_count - 1) :
              /\ started'.dnstt[t] = 1
              /\ started'.ok[t] =>
                    /\ dstate'[t] = RUNNING
                    /\ \A s \in 0 .. (config.ssh_per_dnstt - 1) :
                          started'.ssh[<<t, s>>] = 1]_vars

\* C19 witness: the start loop has ended; the first tunnel failed to start,
\* the last one started, its first child failed and its last child runs
StartupWithFailures ==
    /\ pc["entry"] = "e_main"
    /\ config.dnstt_count = DnsttCount /\ config.ssh_per_dnstt = MaxSlots
    /\ ~started.ok[0] /\ started.ok[DnsttCount - 1]
    /\ sstate[<<DnsttCount - 1, 0>>] # RUNNING
    /\ sstate[<<DnsttCount - 1, MaxSlots - 1>>] = RUNNING

\* the positions whose step is the body of a `with self._lock:` block
\* (lines 202, 348, 378, 412, 227 and 265)
LockedBlocks == {"sd_commit", "ss_commit", "ps_mark", "ps_final", "pd_mark", "pd_final"}

\* a step assigns a field of a record: state, restart_count,
\* xui_outbound_id, or process/pid (set or set to None; the death of the
\* process a handle names is not an assignment)
FieldWritten ==
    \/ dstate' # dstate \/ drc' # drc
    \/ sstate' # sstate \/ src' # src \/ sreg' # sreg
    \/ \E t \in Tunnels : (dproc[t] = "none") # (dproc'[t] = "none")
    \/ \E k \in Slots : (sproc[k] = "none") # (sproc'[k] = "none")

\* C20 (lock discipline): every step that assigns a field of a record is
\* the step of a thread inside a `with self._lock:` block.
LockDiscipline ==
    [][FieldWritten =>
          \E th \in Threads : pc[th] \in LockedBlocks /\ pc'[th] # pc[th]]_vars

\* start_dnstt_tunnel returns False in this step: the spawn raised (lines
\* 213-215), or the process had exited or never listened (181-199)
DnsttStartFails(th) ==
    /\ pc[th] \in {"sd_spawn", "sd_check"}
    /\ <<pc'[th], curT'[th]>> # <<pc[th], curT[th]>>
    /\ pc'[th] \notin {"sd_check", "sd_commit"}
    /\ ctx'[th] # "stop"

\* start_ssh_tunnel returns False in this step (lines 315-334, 361-363)
SshStartFails(th) ==
    /\ pc[th] \in {"ss_spawn", "ss_check"}
    /\ <<pc'[th], curT'[th], curS'[th]>> # <<pc[th], curT[th], curS[th]>>
    /\ pc'[th] \notin {"ss_check", "ss_reg"}
    /\ ctx'[th] # "stop"

\* C21 (start failure marks FAILED): when start_dnstt_tunnel or
\* start_ssh_tunnel returns False, the record's state is FAILED and the
\* process the call spawned is not alive.
StartFailureMarksFailed ==
    [][\A th \in Threads : \A t \in Tunnels : \A s \in 0 .. (MaxSlots - 1) :
          (curT[th] = t /\ curS[th] = s) =>
              /\ DnsttStartFails(th) =>
                    dstate'[t] = FAILED /\ lproc'[th] \notin Live
              /\ SshStartFails(th) =>
                    sstate'[<<t, s>>] = FAILED /\ lproc'[th] \notin Live]_vars

\* C22 (plan construction): once initialize_tunnels has built the plan,
\* there is one DNSTT record for each tunnel_id below dnstt_count and one
\* SSH record for each (tunnel_id, ssh_id) below the two counts, and every
\* one of them is STOPPED.
PlanConstruction ==
    plan # NoPlan =>
        /\ DOMAIN plan.dnstt_state = 0 .. (config.dnstt_count - 1)
        /\ DOMAIN plan.ssh_state =
              (0 .. (config.dnstt_count - 1)) \X (0 .. (config.ssh_per_dnstt - 1))
        /\ \A t \in DOMAIN plan.dnstt_state : plan.dnstt_state[t] = STOPPED
        /\ \A k \in DOMAIN plan.ssh_state : plan.ssh_state[k] = STOPPED

\* monitor_loop lines 477-510: the monitor is in its loop over the DNSTT
\* records, probing one or handling the one it found failed
InParents(p, c) == p = "m_parent" \/ c \in {"mp_restart", "mp_exhaust"}

\* monitor_loop lines 513-549: the monitor is in its loop over the SSH
\* records, probing one or handling the one it found failed
InChildren(p, c) == p = "m_child" \/ c \in {"mc_restart", "mc_exhaust"}

\* C23 (monitor ordering): in a pass the DNSTT records are taken in id
\* order from the first; the loop over the SSH records is entered only
\* from the last DNSTT record, probed or handled, and is never left for a
\* DNSTT record of the same pass; an SSH record whose parent is not RUNNING
\* when the monitor comes to it is passed over untouched.
MonitorOrdering ==
    [][LET p == pc["mon"]
           c == ctx["mon"]
           t == curT["mon"]
           q == pc'["mon"]
           d == ctx'["mon"]
           u == curT'["mon"]
       IN  /\ (InChildren(q, d) /\ ~InChildren(p, c)) =>
                 /\ InParents(p, c) /\ t = config.dnstt_count - 1
                 /\ q = "m_child" /\ u = 0 /\ curS'["mon"] = 0
           /\ ~(InChildren(p, c) /\ InParents(q, d))
           /\ (q = "m_parent" /\ <<p, t>> # <<q, u>>) =>
                 IF p = "m_loop" THEN u = 0 ELSE InParents(p, c) /\ u = t + 1
           /\ (/\ p = "m_child" /\ dstate[t] # RUNNING
               /\ <<p, t, curS["mon"]>> # <<q, u, curS'["mon"]>>) =>
                 /\ sstate' = sstate /\ src' = src /\ sproc' = sproc
                 /\ d \notin {"mc_restart", "mc_exhaust"}]_vars

\* C23 witness: the monitor has stopped a failed parent in this pass and
\* now comes to a child of it, which it will pass over
ChildOfHandledParent ==
    /\ pc["mon"] = "m_child"
    /\ dstate[curT["mon"]] = STOPPED /\ drc[curT["mon"]] > 0

\* C24 (start-up ordering): when initialize_tunnels calls start_ssh_tunnel
\* for child (t, s), start_dnstt_tunnel has returned True for t and t is
\* RUNNING, the children of t with a smaller ssh_id have been started
\* before and none with a larger one.
StartupOrdering ==
    [][\A k \in Slots :
          started'.ssh[k] > started.ssh[k] =>
              /\ started.ok[k[1]] /\ dstate[k[1]] = RUNNING
              /\ \A s \in 0 .. (config.ssh_per_dnstt - 1) :
                    /\ s < k[2] => started.ssh[<<k[1], s>>] = 1
                    /\ s >= k[2] => started.ssh[<<k[1], s>>] = 0]_vars

\* C24 witness: the first tunnel failed to start and none of its children
\* was started; the last child of the last tunnel has been started
LastChildStarted ==
    /\ config.dnstt_count = DnsttCount /\ config.ssh_per_dnstt = MaxSlots
    /\ started.dnstt[0] = 1 /\ ~started.ok[0]
    /\ started.ssh[<<DnsttCount - 1, MaxSlots - 1>>] = 1

\* C25 (parent restart): when the monitor relaunches a tunnel it found
\* failed, every child of the tunnel is stopped and the registry holds no
\* outbound of it; and when the monitor has restarted the children after
\* the relaunch and all of them are RUNNING with a registry id, the tunnel
\* is RUNNING with restart_count 0 and the registry holds exactly one
\* outbound per child, as after a clean start.
ParentRestart ==
    [][\A t \in Tunnels :
          (curT["mon"] = t /\ ctx["mon"] = "mp_restart") =>
              /\ (pc["mon"] = "sd_spawn" /\ pc'["mon"] # "sd_spawn") =>
                    \A s \in 0 .. (config.ssh_per_dnstt - 1) :
                        SshIsStopped(<<t, s>>) /\ registry[<<t, s>>] = 0
              /\ (/\ pc["mon"] = "m_reset" /\ pc'["mon"] # "m_reset"
                  /\ \A s \in 0 .. (config.ssh_per_dnstt - 1) :
                        sstate'[<<t, s>>] = RUNNING /\ sreg'[<<t, s>>]) =>
                    /\ dstate'[t] = RUNNING /\ drc'[t] = 0
                    /\ \A s \in 0 .. (config.ssh_per_dnstt - 1) :
                          registry'[<<t, s>>] = 1]_vars

\* C26 (publication window): the registry takes an outbound of a child
\* only in a start of that child whose process passed the readiness checks;
\* a start that returns False adds nothing; and when stop_ssh_tunnel
\* signals the child's process group the registry holds no outbound of the
\* child any more.
PublicationWindow ==
    [][/\ \A k \in Slots :
             registry'[k] > registry[k] =>
                 \E th \in Threads :
                     /\ pc[th] = "ss_reg" /\ pc'[th] = "ss_commit"
                     /\ Key(th) = k /\ lproc[th] # "mute"
       /\ \A th \in Threads : SshStartFails(th) => registry' = registry
       /\ \A th \in Threads : \A k \in Slots :
             (/\ pc[th] = "ps_kill" /\ pc'[th] = "ps_final" /\ Key(th) = k
              /\ sproc[k] \in Live /\ sproc'[k] = "dead") =>
                 registry[k] = 0]_vars

\* the process has ended (sys.exit after stop()), and the daemon monitor
\* thread with it
ProcessGone == pc["entry"] = "e_gone"

\* C27 (monitor loop liveness): the monitor leaves its loop only from the
\* head of the loop with the shutdown event set, never from an exception;
\* at the head of the loop with the event set it leaves without another
\* pass; and while the process lives, a pass left by an exception is
\* followed by another pass or by the exit at shutdown, and the exit
\* follows once the event is set.
MonitorLoopLiveness ==
    /\ [][/\ (pc'["mon"] = "m_exit" /\ pc["mon"] # "m_exit") =>
                pc["mon"] = "m_loop" /\ shutdown
          /\ (raised' # raised) => pc'["mon"] = "m_loop"
          /\ (pc["mon"] = "m_loop" /\ shutdown /\ pc'["mon"] # "m_loop") =>
                pc'["mon"] = "m_exit"]_vars
    /\ (pc["mon"] = "m_loop" /\ raised > 0) ~>
          (pc["mon"] \in {"m_parent", "m_exit"} \/ ProcessGone)
    /\ (shutdown /\ pc["mon"] # "m_off") ~> (pc["mon"] = "m_exit" \/ ProcessGone)

\* C27 witness: a pass was left by an exception, the shutdown event was set
\* during a later pass, and the monitor has left its loop while the entry
\* thread is still stopping tunnels
ExitAfterException ==
    /\ raised > 0 /\ pc["mon"] = "m_exit"
    /\ pc["entry"] \notin {"e_exit", "e_gone"}

\* C28 (PID-state coherence): every RUNNING record holds a process handle,
\* and a record becomes RUNNING only in the locked block of a start whose
\* process had passed the readiness checks (it may have died since), and
\* takes that process as its handle in the same step.
PidStateCoherence ==
    /\ [](/\ \A t \in Tunnels : dstate[t] = RUNNING => dproc[t] # "none"
          /\ \A k \in Slots : sstate[k] = RUNNING => sproc[k] # "none")
    /\ [][/\ \A t \in Tunnels :
                (dstate'[t] = RUNNING /\ dstate[t] # RUNNING) =>
                    \E th \in Threads :
                        /\ pc[th] = "sd_commit" /\ curT[th] = t
                        /\ lproc[th] \in {"up", "dead"} /\ dproc'[t] = lproc[th]
          /\ \A k \in Slots :
                (sstate'[k] = RUNNING /\ sstate[k] # RUNNING) =>
                    \E th \in Threads :
                        /\ pc[th] = "ss_commit" /\ Key(th) = k
                        /\ lproc[th] \in {"up", "dead"} /\ sproc'[k] = lproc[th]]_vars

\* C28 witness: during start-up a child has become RUNNING under a
\* RUNNING parent and the process its handle names has died since its
\* readiness check
RunningWithDeadHandle ==
    \E k \in Slots :
        /\ sstate[k] = RUNNING /\ sproc[k] = "dead"
        /\ kills = 1 /\ dproc[k[1]] = "up" /\ dstate[k[1]] = RUNNING
        /\ pc["mon"] = "m_off"

\* C29 (signal-driven shutdown never deadlocks): the stop() called by the
\* signal handler is never left waiting for the supervisor mutex.
SignalShutdownReturns == pc["entry"] # "e_blocked"

\* C30 (no orphaned child): a record's handle is cleared only when the
\* process it names is dead, and a process a start has spawned and holds in
\* its local variable leaves it only by being terminated by the start's
\* own readiness check or by becoming the handle of the record.
NoOrphanedChild ==
    [][/\ \A t \in Tunnels :
             (dproc[t] # "none" /\ dproc'[t] = "none") => dproc[t] \notin Live
       /\ \A k \in Slots :
             (sproc[k] # "none" /\ sproc'[k] = "none") => sproc[k] \notin Live
       /\ \A th \in Threads : \A t \in Tunnels : \A k \in Slots :
             (/\ lproc[th] \in Live /\ lproc'[th] = "none"
              /\ curT[th] = t /\ Key(th) = k) =>
                 \/ pc[th] \in {"sd_check", "ss_check"} /\ ctx'[th] # "stop"
                 \/ pc[th] = "sd_commit" /\ dproc'[t] = lproc[th]
                 \/ pc[th] = "ss_commit" /\ sproc'[k] = lproc[th]]_vars

\* the monitor thread makes the Popen of a start_dnstt_tunnel or of a
\* start_ssh_tunnel call
MonitorBeginsStart ==
    /\ pc["mon"] \in {"sd_spawn", "ss_spawn"}
    /\ pc'["mon"] # pc["mon"]

\* C31 (no start after shutdown): once stop() has set the shutdown flag,
\* the monitor thread begins no start_dnstt_tunnel or start_ssh_tunnel call
\* and no outbound is added to the registry.
NoStartAfterShutdown ==
    [][shutdown =>
          /\ ~MonitorBeginsStart
          /\ \A k \in SshKeys : registry'[k] <= registry[k]]_vars

\* C32 (parent restart counter bound): the restart_count of a DNSTT record
\* is 0 each time the monitor examines the record in RUNNING state, it
\* never exceeds 1, and the monitor never takes the 'exceeded max retries'
\* branch for a parent.
ParentCounterBound ==
    [][/\ \A t \in Tunnels : drc'[t] <= 1
       /\ \A t \in Tunnels :
             (MonitorExamines(t) /\ dstate[t] = RUNNING) => drc[t] = 0
       /\ ctx'["mon"] # "mp_exhaust"]_vars

\* C32 witness: the monitor examines RUNNING tunnel 0, whose process has
\* died, with restart_count 0, after it has relaunched the tunnel once
\* already: the child is RUNNING with the restart_count 1 of a restart of
\* its own that failed, which only the restart after a relaunch of its
\* parent (line 503) leaves behind
ExaminedAgainAfterRelaunch ==
    /\ pc["mon"] = "m_parent" /\ curT["mon"] = 0
    /\ dstate[0] = RUNNING /\ dproc[0] = "dead" /\ drc[0] = 0
    /\ sstate[<<0, 0>>] = RUNNING /\ src[<<0, 0>>] = 1
    /\ ~shutdown

\* a start of tunnel t or of one of its children is pending or in
\* progress: the start loop has not gone past t, or the monitor is in a
\* restart under t
InStart(t) ==
    \/ ctx["entry"] = "init" /\ curT["entry"] <= t
    \/ ctx["mon"] \in {"mp_restart", "mc_restart"} /\ curT["mon"] = t

\* DNSTT record t is not RUNNING and no start is pending for it: its start
\* at start-up or its relaunch has failed (or stop() has stopped it)
Abandoned(t) ==
    /\ dstate[t] \in {STARTING, STOPPED, STOPPING}
    /\ ~InStart(t)

\* C33 (failed parent is absorbing): a DNSTT record that a failed start or
\* a failed relaunch has left not RUNNING stays not RUNNING: no later step
\* begins a start of it or of one of its children, and none of them gets a
\* process or becomes RUNNING.
FailedParentAbsorbing ==
    [][\A t \in Tunnels :
          Abandoned(t) =>
             /\ Abandoned(t)'
             /\ dproc'[t] \in Live => dproc[t] \in Live
             /\ \A k \in Slots :
                   k[1] = t =>
                      /\ sstate'[k] = RUNNING => sstate[k] = RUNNING
                      /\ sproc'[k] \in Live => sproc[k] \in Live]_vars

\* C33 witness: tunnel 1's start failed at start-up (STARTING), tunnel 0's
\* relaunch failed in a monitor pass (STOPPED, restart_count 1), and a
\* later pass is at tunnel 0 again
FailedParentsPassedOver ==
    /\ ~shutdown
    /\ started.dnstt[1] = 1 /\ dstate[1] = STARTING
    /\ dstate[0] = STOPPED /\ drc[0] = 1
    /\ pc["mon"] = "m_parent" /\ ctx["mon"] = "pass" /\ curT["mon"] = 0

====
